---------------------------- MODULE Spec2Model ----------------------------
(***************************************************************************)
(* A model of pymed: the PubMed client (src/pymed/pymed.py) and its date   *)
(* binning helper (src/pymed/utils.py).                                    *)
(*                                                                         *)
(* Four specifications share the variables:                                *)
(*   SpecBins  make_date_bins as a pure function of (start_date, end_date) *)
(*   SpecGate  exceeded_rate_limit / get against a discrete clock          *)
(*   Spec      get_article_ids / recurse_bin_processing against a service  *)
(*   SpecQuery query and batches, get_article_ids and get_articles mocked  *)
(***************************************************************************)
EXTENDS Integers, Sequences, FiniteSets, TLC

VARIABLES
    \* ---- make_date_bins (SpecBins)
    start_date,         \* argument: a date, as its proleptic Gregorian ordinal
    end_date,           \* argument
    date_bins,          \* the outcome of the call, or NotCalled
    \* ---- the rate gate (SpecGate)
    rate_limit,         \* self.rate_limit
    requests_made,      \* self.requests_made: the recorded timestamps, in order
    now,                \* datetime.datetime.now(), in ticks
    gate_pc,            \* where get() stands: "idle", "waiting", "sending"
    exceeded,           \* what exceeded_rate_limit() returned last
    outcome,            \* how the last get() ended: "none", "returned", "raised"
    completed,          \* history: when the requests of the last second completed
    waited,             \* history: the get() under way has been held back
    \* ---- get_article_ids (Spec)
    self_parameters,    \* self.parameters, the client's default query parameters
    pc,                 \* "idle", "probe", "direct", "bins", "done", "raised", "fetched"
    args,               \* the arguments of the call: max_results, start_year
    today,              \* datetime.date.today() as the call read it
    max_results,        \* the local max_results, after the -1 substitution
    total_result_count, \* what the probe reported
    parameters,         \* the call's own parameter dict, shared by the recursion
    stack,              \* the recurse_bin_processing frames, outermost first
    result,             \* the list get_article_ids returned
    raised,             \* the exception that left get_article_ids, or "none"
    requests,           \* history: every request sent, with its response
    overcap_left,       \* how many more bins the service may report over the cap
    \* ---- query (SpecQuery)
    query_pc,           \* "idle", "batching", "done", "raised"
    query_args,         \* the arguments of the call; << >> for one left out
    article_ids,        \* the list get_article_ids returned to query
    get_article_ids_calls,  \* history: the calls of get_article_ids, as a mock records them
    get_articles_calls      \* history: the calls of get_articles

binVars == <<start_date, end_date, date_bins>>
gateVars ==
    <<rate_limit, requests_made, now, gate_pc, exceeded, outcome, completed, waited>>
resolverVars ==
    <<self_parameters, pc, args, today, max_results, total_result_count,
      parameters, stack, result, raised, requests, overcap_left>>
queryVars ==
    <<query_pc, query_args, article_ids, get_article_ids_calls, get_articles_calls>>
vars == <<binVars, gateVars, resolverVars, queryVars>>

(***************************************************************************)
(* datetime.date: a date is its ordinal (date.toordinal), day 1 being      *)
(* 0001-01-01; date - timedelta(days=k) is ordinal subtraction.            *)
(***************************************************************************)
IsLeap(y) == y % 4 = 0 /\ (y % 100 # 0 \/ y % 400 = 0)

DaysBeforeYear(y) ==
    (y - 1) * 365 + ((y - 1) \div 4) - ((y - 1) \div 100) + ((y - 1) \div 400)

DaysInMonth(y, m) ==
    IF m = 2 THEN (IF IsLeap(y) THEN 29 ELSE 28)
    ELSE IF m \in {4, 6, 9, 11} THEN 30 ELSE 31

DaysBeforeMonth(y, m) ==
    <<0, 31, 59, 90, 120, 151, 181, 212, 243, 273, 304, 334>>[m]
        + (IF m > 2 /\ IsLeap(y) THEN 1 ELSE 0)

\* datetime.date(y, m, d) for a valid calendar date
date(y, m, d) == DaysBeforeYear(y) + DaysBeforeMonth(y, m) + d

\* date.year, date.month, date.day
YearOf(n) ==
    CHOOSE y \in (n \div 366)..((n \div 365) + 1) :
        DaysBeforeYear(y) < n /\ n <= DaysBeforeYear(y + 1)

MonthOf(n) ==
    LET y == YearOf(n)
        r == n - DaysBeforeYear(y)
    IN  CHOOSE m \in 1..12 :
            DaysBeforeMonth(y, m) < r /\ r <= DaysBeforeMonth(y, m) + DaysInMonth(y, m)

DayOf(n) == n - DaysBeforeYear(YearOf(n)) - DaysBeforeMonth(YearOf(n), MonthOf(n))

(***************************************************************************)
(* Date strings.  A string "Y/M/D" is the record of its three numbers and  *)
(* whether month and day are zero padded: strftime("%Y/%m/%d") pads, the   *)
(* f-string of the last tier does not and may write a day of 0.            *)
(***************************************************************************)
strftime(n) == [y |-> YearOf(n), m |-> MonthOf(n), d |-> DayOf(n), padded |-> TRUE]

fstring(y, m, d) == [y |-> y, m |-> m, d |-> d, padded |-> FALSE]

\* Whether the three numbers of a date string name a calendar day
IsCalendarDay(s) == s.m \in 1..12 /\ s.d >= 1 /\ s.d <= DaysInMonth(s.y, s.m)

\* datetime.strptime(s, "%Y/%m/%d").date(): padded or not, ValueError on a
\* day that is not in the calendar
strptime(s) ==
    IF IsCalendarDay(s)
    THEN [raised |-> "none", date |-> date(s.y, s.m, s.d)]
    ELSE [raised |-> "ValueError", date |-> 0]

(***************************************************************************)
(* make_date_bins                                                          *)
(***************************************************************************)
\* list(range(1, stop, step)) for step > 0
range(stop, step) ==
    IF stop <= 1 THEN << >>
    ELSE [k \in 1..(((stop - 1) + (step - 1)) \div step) |-> 1 + (k - 1) * step]

\* A filter that keeps the first offset as well
Keep_all(i) == i >= 1

\* The `if i > 1` clause of the four comprehensions
Keep(i) == i > 1

\* One comprehension: the bins (end - i, end - (i - step)) for the kept i
Comprehension(end, rng, step) ==
    LET kept == SelectSeq(rng, Keep)
    IN  [k \in 1..Len(kept) |->
            <<strftime(end - kept[k]), strftime(end - (kept[k] - step))>>]

\* A last return that gives the day before end_date as a bin of one day
LastTier_forward(end) ==
    << <<strftime(end - 1), strftime(end)>> >>

\* The last return: one bin written from end_date's calendar fields
LastTier(end) ==
    << <<fstring(YearOf(end), MonthOf(end), DayOf(end)),
         fstring(YearOf(end), MonthOf(end), DayOf(end) - 1)>> >>

\* The span test of the first comprehension
YearTier(start, end) == end - start > 366

\* A guard that lets a range one day backwards through
InvalidRange_offByOne(start, end) == start > end + 1

\* The guard of the raise
InvalidRange(start, end) == start > end

make_date_bins(start, end) ==
    IF InvalidRange(start, end)
    THEN [raised |-> "ValueError", bins |-> << >>]
    ELSE IF YearTier(start, end)
    THEN [raised |-> "none",
          bins |-> Comprehension(end, range((YearOf(end) - YearOf(start)) * 365, 365), 365)]
    ELSE IF end - start > 31
    THEN [raised |-> "none", bins |-> Comprehension(end, range(365, 28), 28)]
    ELSE IF end - start > 7
    THEN [raised |-> "none", bins |-> Comprehension(end, range(31, 7), 7)]
    ELSE IF end - start > 1
    THEN [raised |-> "none", bins |-> Comprehension(end, range(7, 1), 1)]
    ELSE [raised |-> "none", bins |-> LastTier(end)]

(***************************************************************************)
(* SpecBins: the arguments are drawn at Init, one action applies the       *)
(* function.                                                               *)
(***************************************************************************)
NotCalled == [raised |-> "not called", bins |-> << >>]

\* Spans -MaxBack..MaxSmallSpan are all tried; longer ones are sampled
MaxSmallSpan == 9
MaxBack == 3

Spans ==
    ((0 - MaxBack)..MaxSmallSpan)
        \cup {28, 31, 32, 40, 200, 365, 366, 367, 400, 517, 700, 730, 731, 732, 800, 1096, 1100}

EndDates ==
    {date(2024, 1, 1), date(2024, 1, 2), date(2024, 3, 1), date(2024, 6, 1),
     date(2024, 12, 31), date(2023, 1, 1), date(2023, 7, 15), date(2025, 3, 31)}

\* PubMed.__init__: the rate gate of a client built with or without an api_key
NewGate(api_key) ==
    /\ rate_limit = (IF api_key # "None" THEN 10 ELSE 3)
    /\ requests_made = << >>
    /\ gate_pc = "idle"
    /\ exceeded = FALSE
    /\ outcome = "none"
    /\ completed = << >>
    /\ waited = FALSE

\* PubMed.__init__: the default query parameters
NewParameters(api_key) ==
    [tool |-> "my_tool", email |-> "my_email@example.com", db |-> "pubmed",
     api_key |-> api_key]

\* A client on which get_article_ids has not been called
NewResolver(api_key) ==
    /\ self_parameters = NewParameters(api_key)
    /\ pc = "idle"
    /\ args = [max_results |-> 0, start_year |-> 0]
    /\ today = 0
    /\ max_results = 0
    /\ total_result_count = 0
    /\ parameters = NewParameters(api_key)
    /\ stack = << >>
    /\ result = << >>
    /\ raised = "none"
    /\ requests = << >>
    /\ overcap_left = 0

\* A client on which query has not been called
NewQuery ==
    /\ query_pc = "idle"
    /\ query_args = [query |-> "", max_results |-> << >>, skip |-> "None",
                     start_year |-> << >>]
    /\ article_ids = << >>
    /\ get_article_ids_calls = << >>
    /\ get_articles_calls = << >>

\* The parts of the state a specification leaves alone
NoBins == start_date = 0 /\ end_date = 0 /\ date_bins = NotCalled
NoGate == NewGate("None") /\ now = 0
NoResolver == NewResolver("None")
NoQuery == NewQuery

InitBins ==
    /\ end_date \in EndDates
    /\ start_date \in {end_date - s : s \in Spans}
    /\ date_bins = NotCalled
    /\ NoGate
    /\ NoResolver
    /\ NoQuery

MakeDateBins ==
    /\ date_bins = NotCalled
    /\ date_bins' = make_date_bins(start_date, end_date)
    /\ UNCHANGED <<start_date, end_date, gateVars, resolverVars, queryVars>>

NextBins == MakeDateBins

SpecBins == InitBins /\ [][NextBins]_vars

(***************************************************************************)
(* SpecGate: the rate gate.  Time is a clock of ticks, TicksPerSecond to   *)
(* the second, that runs to MaxTime; it may advance between any two steps  *)
(* of get(), also while a request is in flight.                            *)
(***************************************************************************)
TicksPerSecond == 4
MaxTime == 9

\* A comparison that holds a request back at rate_limit timestamps already
OverLimit_atLimit(n, limit) == n >= limit

\* The comparison of exceeded_rate_limit's return
OverLimit(n, limit) == n > limit

\* A filter that discards nothing
Fresh_keepAll(ts, t) == ts

\* The filter of exceeded_rate_limit: timestamps newer than now - 1 second
Fresh(ts, t) == SelectSeq(ts, LAMBDA requestTime : requestTime > t - TicksPerSecond)

\* What requests.get / raise_for_status can do with a dispatched request
Responses == {"ok", "http_error", "timeout"}

InitGate ==
    /\ \E api_key \in {"None", "key"} : NewGate(api_key)
    /\ now = 0
    /\ NoBins
    /\ NoResolver
    /\ NoQuery

\* get(): one evaluation of the loop condition, self.exceeded_rate_limit().
\* It prunes requests_made and either spins or lets the request go.
ExceededRateLimit ==
    /\ gate_pc \in {"idle", "waiting"}
    /\ requests_made' = Fresh(requests_made, now)
    /\ exceeded' = OverLimit(Len(requests_made'), rate_limit)
    /\ gate_pc' = IF exceeded' THEN "waiting" ELSE "sending"
    /\ outcome' = "none"
    /\ waited' = (waited \/ exceeded')
    /\ UNCHANGED <<rate_limit, now, completed, binVars, resolverVars, queryVars>>

\* get(): requests.get, raise_for_status, and the append of the timestamp
\* that only a successful response reaches.
Respond ==
    /\ gate_pc = "sending"
    /\ \E response \in Responses :
          IF response = "ok"
          THEN /\ requests_made' = Append(requests_made, now)
               /\ completed' = Append(Fresh(completed, now), now)
               /\ outcome' = "returned"
          ELSE /\ outcome' = "raised"
               /\ UNCHANGED <<requests_made, completed>>
    /\ gate_pc' = "idle"
    /\ waited' = FALSE
    /\ UNCHANGED <<rate_limit, now, exceeded, binVars, resolverVars, queryVars>>

\* The clock advances
Tick ==
    /\ now < MaxTime
    /\ now' = now + 1
    /\ UNCHANGED <<rate_limit, requests_made, gate_pc, exceeded, outcome, completed,
                   waited, binVars, resolverVars, queryVars>>

NextGate == ExceededRateLimit \/ Respond \/ Tick

SpecGate == InitGate /\ [][NextGate]_vars

\* The clock runs on, and the loop "while self.exceeded_rate_limit(): pass"
\* keeps evaluating its condition
FairGate ==
    /\ SpecGate
    /\ WF_vars(Tick)
    /\ WF_vars(gate_pc = "waiting" /\ ExceededRateLimit)

\* The number of completed requests in the window of one second from w
InWindow(w) ==
    Cardinality({i \in DOMAIN completed :
                    w <= completed[i] /\ completed[i] < w + TicksPerSecond})

\* C1: no rolling window of one second contains more than rate_limit
\* completed requests.  The gate lets a request go while rate_limit
\* timestamps are fresh, so rate_limit + 1 requests complete in one window.
C1_WindowWithinLimit == \A w \in 0..MaxTime : InWindow(w) <= rate_limit

(***************************************************************************)
(* Spec: get_article_ids and recurse_bin_processing.  Every step runs the  *)
(* code from one request (a call of self.get) to the next.  The service    *)
(* answers a request with an HTTP/transport error, with a body that holds  *)
(* no esearchresult count, or with a count and the page of identifiers     *)
(* that goes with it.  Time is not part of this specification: the rate    *)
(* gate each request passes is the subject of SpecGate.                    *)
(***************************************************************************)
max_retriveable_results == 10000

\* How many bins of one call the service may report over the cap
MaxOverCap == 2

Query == "test[Title]"
MaxResultsArgs == {-1, 0, 2, max_retriveable_results, 2 * max_retriveable_results}
TotalCounts == {0, 3, max_retriveable_results, max_retriveable_results + 1}
StartYears == {2021, 2022, 2023, 2024, 2025}
Todays ==
    {date(2024, 1, 1), date(2024, 1, 2), date(2024, 1, 5), date(2024, 1, 20),
     date(2024, 6, 1)}

Min(a, b) == IF a < b THEN a ELSE b

\* d[k] = v on a dict
Set(d, k, v) == (k :> v) @@ d

\* An entry of the history of requests: the parameters sent, the response,
\* and the depth of the recurse_bin_processing call that sent it (0 outside)
Request(params, response, depth) ==
    [parameters |-> params, response |-> response, depth |-> depth]

\* The responses of the service
Error == [kind |-> "error", count |-> 0]
NoCount == [kind |-> "nocount", count |-> 0]
Ok(n) == [kind |-> "ok", count |-> n]

\* How many identifiers the service puts in a response: min(matches, retmax)
PageSize(response, retmax) ==
    IF response.kind = "ok" THEN Min(response.count, retmax) ELSE 0

\* response.get("esearchresult", {}).get("idlist", []) of the k-th request of
\* the call: the first n identifiers of that response, a list of length n
IdList(k, response, retmax) ==
    IF PageSize(response, retmax) > 0
    THEN << [request |-> k, n |-> PageSize(response, retmax)] >>
    ELSE << >>

\* len() of an identifier list
RECURSIVE Length(_)
Length(ids) == IF ids = << >> THEN 0 ELSE ids[1].n + Length(Tail(ids))

\* "if max_results < parameters['retmax']: parameters['retmax'] = max_results"
CutOff(params, max) ==
    IF max < params.retmax THEN Set(params, "retmax", max) ELSE params

\* get(): "parameters['retmode'] = retmode" on the dict it was handed
Sent(params, retmode) == Set(params, "retmode", retmode)

\* A test that also sends a count of exactly the cap into bins
OverCap_atCap(count) == count >= max_retriveable_results

\* The test that sends get_article_ids and recurse_bin_processing into bins
OverCap(count) == count > max_retriveable_results

\* "parameters = self.parameters.copy()" with the writes going to the call's
\* dict as well as to self.parameters
SelfParameters_aliased(defaults, written) == written

\* "parameters = self.parameters.copy()": the call writes to its copy, so
\* self.parameters is what it was, whatever the copy has become
SelfParameters(defaults, written) == defaults

\* The identifier lists get_articles is called with
ArticleIdsArgs == {<< >>, <<"11111111", "22222222">>}

\* A frame of recurse_bin_processing: its arguments start_date and end_date,
\* its bins, the index of the bin the loop is at, and its article_ids so far
Frame(start, end, bins) ==
    [start_date |-> start, end_date |-> end, date_bins |-> bins, i |-> 1,
     article_ids |-> << >>]

Exhausted(frame) == frame.i > Len(frame.date_bins)

\* What a frame hands to its caller in "article_ids += self.recurse_bin_processing(...)"
Returned(frame) == frame.article_ids

\* Frames whose loop has ended return: the caller appends what they return
\* and goes on to its next bin.  The outermost frame stays.
RECURSIVE Unwind(_)
Unwind(st) ==
    LET top == st[Len(st)]
    IN  IF Len(st) = 1 \/ ~Exhausted(top) THEN st
        ELSE LET caller == st[Len(st) - 1]
             IN  Unwind(Append(SubSeq(st, 1, Len(st) - 2),
                               [caller EXCEPT !.article_ids = @ \o Returned(top),
                                              !.i = @ + 1]))

\* An exception that is swallowed: get_article_ids returns an empty list
Raise_swallowed(e) ==
    /\ pc' = "done"
    /\ raised' = "none"
    /\ stack' = << >>
    /\ result' = << >>

\* An exception leaves get_article_ids: nothing is returned
Raise(e) ==
    /\ pc' = "raised"
    /\ raised' = e
    /\ stack' = << >>
    /\ result' = << >>

\* The recursion goes on to its next request, or get_article_ids returns
Continue(st) ==
    /\ raised' = "none"
    /\ IF Len(st) = 1 /\ Exhausted(st[1])
       THEN pc' = "done" /\ result' = st[1].article_ids /\ stack' = << >>
       ELSE pc' = "bins" /\ result' = << >> /\ stack' = st

InitResolver ==
    /\ NewResolver("None")
    /\ NoBins
    /\ NoGate
    /\ NoQuery

\* get_article_ids, up to its first request
GetArticleIds ==
    /\ pc = "idle"
    /\ \E m \in MaxResultsArgs, y \in StartYears :
          /\ args' = [max_results |-> m, start_year |-> y]
          /\ max_results' = m
    /\ parameters' =
          Set(Set(self_parameters, "term", Query), "retmax", max_retriveable_results)
    /\ pc' = "probe"
    /\ today' = 0
    /\ total_result_count' = 0
    /\ stack' = << >>
    /\ result' = << >>
    /\ raised' = "none"
    /\ requests' = << >>
    /\ overcap_left' = MaxOverCap
    /\ self_parameters' = SelfParameters(self_parameters, parameters')
    /\ UNCHANGED <<binVars, gateVars, queryVars>>

\* get_total_results_count, then get_article_ids up to its next request:
\* the cut off, the choice of the direct or the bin path, the first bins
GetTotalResultsCount ==
    /\ pc = "probe"
    /\ \E response \in {Error, NoCount} \cup {Ok(n) : n \in TotalCounts} :
          LET probe == Sent(Set(Set(self_parameters, "term", Query), "retmax", 1), "json")
              max == IF args.max_results = -1 THEN response.count ELSE args.max_results
          IN  /\ requests' = Append(requests, Request(probe, response, 0))
              /\ IF response.kind = "error"
                 THEN /\ Raise("HTTPError")
                      /\ UNCHANGED <<today, max_results, total_result_count, parameters>>
                 ELSE IF response.kind = "nocount"
                 THEN /\ Raise("TypeError")
                      /\ UNCHANGED <<today, max_results, total_result_count, parameters>>
                 ELSE /\ total_result_count' = response.count
                      /\ max_results' = max
                      /\ parameters' = CutOff(parameters, max)
                      /\ IF ~OverCap(response.count)
                         THEN /\ pc' = "direct"
                              /\ UNCHANGED <<today, stack, result, raised>>
                         ELSE \E t \in Todays :
                                LET made == make_date_bins(date(args.start_year, 1, 1), t)
                                IN  /\ today' = t
                                    /\ IF made.raised # "none"
                                       THEN Raise(made.raised)
                                       ELSE Continue(Unwind(<<Frame(date(args.start_year, 1, 1), t, made.bins)>>))
    /\ self_parameters' = SelfParameters(self_parameters, parameters')
    /\ UNCHANGED <<args, overcap_left, binVars, gateVars, queryVars>>

\* get_article_ids, the direct path: one paged request, its idlist returned
DirectSearch ==
    /\ pc = "direct"
    /\ \E response \in {Error, NoCount, Ok(total_result_count)} :
          LET sent == Sent(parameters, "json")
          IN  /\ parameters' = sent
              /\ requests' = Append(requests, Request(sent, response, 0))
              /\ IF response.kind = "error"
                 THEN Raise("HTTPError")
                 ELSE /\ pc' = "done"
                      /\ result' = IdList(Len(requests) + 1, response, sent.retmax)
                      /\ UNCHANGED <<stack, raised>>
    /\ self_parameters' = SelfParameters(self_parameters, parameters')
    /\ UNCHANGED <<args, today, max_results, total_result_count, overcap_left,
                   binVars, gateVars, queryVars>>

\* The service reports every bin over the cap from some request of the call on
EveryBinOverCap == overcap_left < 0

\* What the service may answer for a bin: a count over the cap for at most
\* MaxOverCap bins of a call, or for every bin from some request on
BinResponses ==
    {Error, NoCount}
        \cup (IF EveryBinOverCap THEN {} ELSE {Ok(max_retriveable_results)})
        \cup (IF overcap_left # 0 THEN {Ok(max_retriveable_results + 1)} ELSE {})

\* What is left of the service's allowance after a bin over the cap
OverCapLeft ==
    IF EveryBinOverCap THEN {overcap_left} ELSE {overcap_left - 1, 0 - 1}

\* recurse_bin_processing: one turn of the loop over date_bins, with the
\* call of itself on a bin over the cap and the returns that follow
BinRequest ==
    /\ pc = "bins"
    /\ \E response \in BinResponses :
          LET top == stack[Len(stack)]
              date_bin == top.date_bins[top.i]
              sent == Sent(CutOff(Set(Set(parameters, "mindate", date_bin[1]),
                                      "maxdate", date_bin[2]),
                                  max_results),
                           "json")
              ids == top.article_ids \o IdList(Len(requests) + 1, response, sent.retmax)
              start == strptime(date_bin[1])
              end == strptime(date_bin[2])
              made == make_date_bins(start.date, end.date)
              added == [stack EXCEPT ![Len(stack)].article_ids = ids]
          IN  /\ parameters' = sent
              /\ requests' = Append(requests, Request(sent, response, Len(stack)))
              /\ IF response.kind = "error"
                 THEN Raise("HTTPError") /\ UNCHANGED overcap_left
                 ELSE IF response.kind = "nocount"
                 THEN Raise("TypeError") /\ UNCHANGED overcap_left
                 ELSE IF OverCap(response.count)
                 THEN /\ overcap_left' \in OverCapLeft
                      /\ IF start.raised # "none" \/ end.raised # "none"
                         THEN Raise("ValueError")
                         ELSE IF made.raised # "none"
                         THEN Raise(made.raised)
                         ELSE Continue(Unwind(Append(added, Frame(start.date, end.date, made.bins))))
                 ELSE /\ UNCHANGED overcap_left
                      /\ Continue(Unwind([added EXCEPT ![Len(stack)].i = @ + 1]))
    /\ self_parameters' = SelfParameters(self_parameters, parameters')
    /\ UNCHANGED <<args, today, max_results, total_result_count, binVars,
                   gateVars, queryVars>>

\* get_articles, once its generator runs: a copy of the defaults with the
\* identifiers as "id", sent for xml
GetArticles ==
    /\ pc = "idle"
    /\ \E ids \in ArticleIdsArgs, response \in {Error, Ok(0)} :
          LET sent == Sent(Set(self_parameters, "id", ids), "xml")
          IN  /\ parameters' = sent
              /\ requests' = <<Request(sent, response, 0)>>
              /\ IF response.kind = "error"
                 THEN Raise("HTTPError")
                 ELSE pc' = "fetched" /\ UNCHANGED <<stack, result, raised>>
    /\ self_parameters' = SelfParameters(self_parameters, parameters')
    /\ UNCHANGED <<args, today, max_results, total_result_count, overcap_left,
                   binVars, gateVars, queryVars>>

\* get_article_ids or get_articles has returned or raised: its locals are
\* gone, the client is ready for the next call
BackToCaller ==
    /\ pc \in {"done", "raised", "fetched"}
    /\ pc' = "idle"
    /\ args' = [max_results |-> 0, start_year |-> 0]
    /\ today' = 0
    /\ max_results' = 0
    /\ total_result_count' = 0
    /\ parameters' = self_parameters
    /\ stack' = << >>
    /\ result' = << >>
    /\ raised' = "none"
    /\ requests' = << >>
    /\ overcap_left' = 0
    /\ UNCHANGED <<self_parameters, binVars, gateVars, queryVars>>

Next ==
    \/ GetArticleIds
    \/ GetTotalResultsCount
    \/ DirectSearch
    \/ BinRequest
    \/ GetArticles
    \/ BackToCaller

Spec == InitResolver /\ [][Next]_vars

(***************************************************************************)
(* SpecQuery: query.  get_article_ids and get_articles are taken as a test *)
(* mocks them: get_article_ids returns some list of identifiers or raises, *)
(* each call is recorded with its arguments.                               *)
(***************************************************************************)
\* Identifier lists of every length to MaxIds are tried; longer ones are sampled
MaxIds == 3

IdCounts == (0..MaxIds) \cup {249, 250, 251, 499, 500, 501, 750}

\* An argument left out is << >>, one given is <<value>>
MaxResultsGiven == {<< >>, <<0>>, <<2>>}
Skips == {"None", "book", "paper"}
StartYearsGiven == {<< >>, <<2000>>, <<2024>>}

\* The value of a parameter with a default
Default(given, default) == IF given = << >> THEN default ELSE given[1]

\* list(range(0, stop, step)) for step > 0
range0(stop, step) ==
    [k \in 1..((stop + (step - 1)) \div step) |-> (k - 1) * step]

\* Batches that leave out an incomplete last one
batches_whole(iterable, n) ==
    [k \in 1..(Len(iterable) \div n) |->
        SubSeq(iterable, (k - 1) * n + 1, k * n)]

\* batches: the slices iterable[index : min(index + n, length)]
batches(iterable, n) ==
    LET length == Len(iterable)
        index == range0(length, n)
    IN  [k \in 1..Len(index) |->
            SubSeq(iterable, index[k] + 1, Min(index[k] + n, length))]

InitQuery ==
    /\ NewQuery
    /\ NoBins
    /\ NoGate
    /\ NoResolver

\* query, to the return of get_article_ids: it returns a list or raises
QueryGetArticleIds ==
    /\ query_pc = "idle"
    /\ \E m \in MaxResultsGiven, s \in Skips, y \in StartYearsGiven :
          /\ query_args' =
                [query |-> Query, max_results |-> m, skip |-> s, start_year |-> y]
          /\ get_article_ids_calls' =
                Append(get_article_ids_calls,
                       [query |-> Query, max_results |-> Default(m, 0 - 1),
                        start_year |-> Default(y, 1900)])
    /\ \/ \E n \in IdCounts :
             /\ article_ids' = [i \in 1..n |-> i]
             /\ query_pc' = "batching"
       \/ /\ article_ids' = << >>
          /\ query_pc' = "raised"
    /\ UNCHANGED <<get_articles_calls, binVars, gateVars, resolverVars>>

\* query, the list comprehension: get_articles is called on every batch
QueryGetArticles ==
    /\ query_pc = "batching"
    /\ get_articles_calls' =
          get_articles_calls
              \o [k \in 1..Len(batches(article_ids, 250)) |->
                     [article_ids |-> batches(article_ids, 250)[k],
                      skip |-> query_args.skip]]
    /\ query_pc' = "done"
    /\ UNCHANGED <<query_args, article_ids, get_article_ids_calls, binVars,
                   gateVars, resolverVars>>

NextQuery == QueryGetArticleIds \/ QueryGetArticles

SpecQuery == InitQuery /\ [][NextQuery]_vars

\* A bound of a bin, as a date string, names a day of [start, end]
BoundWithin(s, start, end) ==
    /\ IsCalendarDay(s)
    /\ start <= date(s.y, s.m, s.d)
    /\ date(s.y, s.m, s.d) <= end

\* C8: for start <= end, make_date_bins returns a non-empty sequence of bins.
\* The code returns no bins for a span over 366 days whose dates lie in
\* consecutive calendar years.
C8_NonEmpty ==
    (date_bins # NotCalled /\ start_date <= end_date)
        => (date_bins.raised = "none" /\ Len(date_bins.bins) > 0)

\* C9: for start <= end, both bounds of every returned bin lie within
\* [start, end].  The code's bins reach back a fixed number of steps from
\* end, whatever start is, and the last tier writes end - 1 or a day 0.
C9_BoundsWithinRange ==
    (date_bins # NotCalled /\ start_date <= end_date)
        => \A k \in 1..Len(date_bins.bins) :
               /\ BoundWithin(date_bins.bins[k][1], start_date, end_date)
               /\ BoundWithin(date_bins.bins[k][2], start_date, end_date)

\* C10: for start > end, make_date_bins raises ValueError and returns no bins.
C10_InvalidRangeRaises ==
    (date_bins # NotCalled /\ start_date > end_date)
        => date_bins = [raised |-> "ValueError", bins |-> << >>]

C10_Witness == start_date > end_date /\ date_bins.raised = "ValueError"


(***************************************************************************)
(* Claims about get_article_ids (Spec)                                     *)
(***************************************************************************)
\* The probe answered with a count
ProbeReported == Len(requests) >= 1 /\ requests[1].response.kind = "ok"

\* The k-th request of the call is a search restricted to a date bin
IsBinRequest(k) == "mindate" \in DOMAIN requests[k].parameters

\* The page of identifiers the k-th request brought
PageOf(k) == IdList(k, requests[k].response, requests[k].parameters.retmax)

\* C2: with totalCount <= 10000 and max_results >= 0, get_article_ids issues
\* exactly two requests, the probe with retmax = 1 and one search without
\* date bounds with retmax = min(max_results, 10000), and returns that
\* response's identifier list, of length min(totalCount, max_results).
C2_DirectPath ==
    (/\ pc \in {"done", "raised"}
     /\ ProbeReported
     /\ total_result_count <= max_retriveable_results
     /\ args.max_results >= 0)
        => /\ Len(requests) = 2
           /\ requests[1].parameters.retmax = 1
           /\ requests[2].parameters.retmax
                 = Min(args.max_results, max_retriveable_results)
           /\ ~IsBinRequest(1) /\ ~IsBinRequest(2)
           /\ (requests[2].response.kind = "ok"
                  => /\ pc = "done"
                     /\ result = PageOf(2)
                     /\ Length(result) = Min(total_result_count, args.max_results))

C2_Witness ==
    /\ pc = "done"
    /\ total_result_count = max_retriveable_results
    /\ args.max_results = 2
    /\ Len(requests) = 2
    /\ Length(result) = 2

\* The pages of the bins whose count is within the cap, in request order: the
\* in-order concatenation of the sub-resolutions, a bin over the cap standing
\* for its sub-bins only
RECURSIVE LeafPages(_)
LeafPages(k) ==
    IF k > Len(requests) THEN << >>
    ELSE (IF OverCap(requests[k].response.count) THEN << >> ELSE PageOf(k))
            \o LeafPages(k + 1)

\* C3: with totalCount > 10000 the returned list is the in-order
\* concatenation of the bins' sub-resolutions, where a bin over the cap
\* contributes the sub-resolutions of its sub-bins and not its own page.
\* The code appends every bin's page before it looks at the count.
C3_ConcatenationOfSubResolutions ==
    (pc = "done" /\ ProbeReported /\ total_result_count > max_retriveable_results)
        => result = LeafPages(2)

\* C4: with totalCount > 10000 and start_year not after the current year, a
\* call that returns has issued more than 2 requests.
C4_MoreThanTwoRequests ==
    (/\ pc = "done"
     /\ ProbeReported
     /\ total_result_count > max_retriveable_results
     /\ args.start_year <= YearOf(today))
        => Len(requests) > 2

\* C5: for max_results >= 0 the returned list has at most max_results
\* identifiers.
C5_AtMostMaxResults ==
    (pc = "done" /\ args.max_results >= 0) => Length(result) <= args.max_results

\* The k-th request asked for a range of days that holds day d
Covers(k, d) ==
    /\ IsBinRequest(k)
    /\ IsCalendarDay(requests[k].parameters.mindate)
    /\ IsCalendarDay(requests[k].parameters.maxdate)
    /\ strptime(requests[k].parameters.mindate).date <= d
    /\ d <= strptime(requests[k].parameters.maxdate).date

\* C6: with max_results = -1 and totalCount > 10000, when no bin is over the
\* cap, the bins requested by a call that returns cover every day from
\* start_year-01-01 to today - 1 day.
C6_BinsCoverRange ==
    (/\ pc = "done"
     /\ ProbeReported
     /\ args.max_results = -1
     /\ total_result_count > max_retriveable_results
     /\ \A k \in 2..Len(requests) : ~OverCap(requests[k].response.count))
        => \A d \in date(args.start_year, 1, 1)..(today - 1) :
               \E k \in 2..Len(requests) : Covers(k, d)

\* Some request of the call met a transport/HTTP error or a body without a count
SomeRequestFailed ==
    \E k \in DOMAIN requests : requests[k].response.kind \in {"error", "nocount"}

\* The k-th request is the direct paged search
IsDirectRequest(k) ==
    k = 2 /\ ~IsBinRequest(k) /\ total_result_count <= max_retriveable_results

SpanOf(frame) == frame.end_date - frame.start_date

\* Every recurse_bin_processing call on the stack runs on a range that is not
\* reversed and is strictly shorter than the range of its caller
SpansShrink ==
    \A k \in 1..Len(stack) :
        /\ SpanOf(stack[k]) >= 0
        /\ k > 1 => SpanOf(stack[k]) < SpanOf(stack[k - 1])

\* A bound on the requests that a bin of a given width, and that a call on a
\* range of a given span, can cause: the bin's own request and those of the
\* call on it; for a range, no more bins than the longest range of its tier
\* has days, each of the width of its tier (the bin of the last tier is no
\* valid range)
RECURSIVE RangeCost(_)
BinCost(width) == 1 + RangeCost(width)

RangeCost(span) ==
    IF span < 0 THEN 0
    ELSE IF span <= 1 THEN BinCost(0 - 1)
    ELSE IF span <= 7 THEN 7 * BinCost(1)
    ELSE IF span <= 31 THEN 31 * BinCost(7)
    ELSE IF span <= 366 THEN 366 * BinCost(28)
    ELSE span * BinCost(365)

\* The days from the lower to the upper bound of a bin; -1 if one is no date
WidthOf(date_bin) ==
    LET start == strptime(date_bin[1])
        end == strptime(date_bin[2])
    IN  IF start.raised # "none" \/ end.raised # "none"
        THEN 0 - 1
        ELSE end.date - start.date

\* The bins a frame has not sent a request for yet
BinsLeft(k) ==
    Len(stack[k].date_bins) - stack[k].i + (IF k = Len(stack) THEN 1 ELSE 0)

\* A bound on the requests the call can still send
RECURSIVE RequestsLeft(_)
RequestsLeft(k) ==
    IF k > Len(stack) THEN 0
    ELSE BinsLeft(k) * BinCost(WidthOf(stack[k].date_bins[stack[k].i]))
             + RequestsLeft(k + 1)

\* C11: whatever the service answers, a count over the cap for every bin at
\* every level included, a get_article_ids call ends after finitely many
\* requests: the recursion only goes to a strictly shorter range, and the
\* requests sent and those that may still come are never more than a number
\* the range of the call fixes, one request being sent at every step.
C11_CallFinishes ==
    /\ SpansShrink
    /\ pc = "direct" => Len(requests) = 1
    /\ pc = "bins" =>
          /\ RequestsLeft(1) >= 1
          /\ Len(requests) + RequestsLeft(1)
                <= 1 + RangeCost(today - date(args.start_year, 1, 1))
    /\ pc \in {"done", "raised"} /\ today # 0 =>
          Len(requests) <= 1 + RangeCost(today - date(args.start_year, 1, 1))

C11_Witness ==
    /\ pc = "raised"
    /\ Len(requests) >= 6
    /\ \A k \in 1..Len(requests) :
           requests[k].response.kind = "ok" /\ OverCap(requests[k].response.count)


\* The k-th request asked for a bin from one day to the next
IsOneDayBin(k) ==
    /\ IsBinRequest(k)
    /\ WidthOf(<<requests[k].parameters.mindate, requests[k].parameters.maxdate>>) = 1

\* C12: a one-day bin is a leaf: when its request reports a count over the
\* cap, recurse_bin_processing does not recurse on it, so the next request of
\* the call is not one of a deeper frame.  The code recurses on every bin
\* over the cap: the next request asks for the reversed bin of the last tier.
C12_OneDayBinIsLeaf ==
    \A k \in DOMAIN requests :
        (/\ IsOneDayBin(k)
         /\ requests[k].response.kind = "ok"
         /\ OverCap(requests[k].response.count)
         /\ k < Len(requests))
            => requests[k + 1].depth <= requests[k].depth

(***************************************************************************)
(* More claims about make_date_bins (SpecBins)                             *)
(***************************************************************************)
\* C13: for start <= end every returned bin (b0, b1), in every tier, has
\* b0 <= b1 as calendar dates.  The last tier returns (end, end - 1 day), or
\* a day 0 that is no date.
C13_LowerBeforeUpper ==
    (date_bins # NotCalled /\ start_date <= end_date)
        => \A k \in 1..Len(date_bins.bins) :
               /\ IsCalendarDay(date_bins.bins[k][1])
               /\ IsCalendarDay(date_bins.bins[k][2])
               /\ strptime(date_bins.bins[k][1]).date
                     <= strptime(date_bins.bins[k][2]).date

\* The width of the bins of a span
StepOf(span) ==
    IF span > 366 THEN 365 ELSE IF span > 31 THEN 28 ELSE IF span > 7 THEN 7 ELSE 1

C15_EveryDispatchRecorded ==
    [][(gate_pc = "sending" /\ gate_pc' = "idle")
          => requests_made' = Append(requests_made, now)]_vars

\* The timestamps of ts less than one second old at t, in their order
RECURSIVE Surviving(_, _)
Surviving(ts, t) ==
    IF ts = << >> THEN << >>
    ELSE (IF t - Head(ts) < TicksPerSecond THEN <<Head(ts)>> ELSE << >>)
            \o Surviving(Tail(ts), t)

\* C16: exceeded_rate_limit() leaves in requests_made the timestamps newer
\* than one second before now, in their order, and returns True exactly when
\* strictly more than rate_limit of them remain.
C16_ExceededRateLimit ==
    [][(gate_pc \in {"idle", "waiting"} /\ now' = now)
          => /\ requests_made' = Surviving(requests_made, now)
             /\ exceeded' = (Len(Surviving(requests_made, now)) > rate_limit)]_vars

C16_Witness ==
    /\ gate_pc = "waiting"
    /\ exceeded
    /\ rate_limit = 3
    /\ Len(requests_made) = 4

\* The newest recorded timestamp is one second old or older
AllStale ==
    requests_made = << >> \/ now >= requests_made[Len(requests_made)] + TicksPerSecond

\* C18: the rate gate only delays: a get() that is held back raises nothing
\* while it waits, is let through by a check made one second after the
\* newest recorded timestamp or later, and is let through in the end as the
\* clock advances.
C18_GateOnlyDelays ==
    /\ [](gate_pc = "waiting" => outcome = "none")
    /\ [][(gate_pc = "waiting" /\ now' = now /\ AllStale) => gate_pc' = "sending"]_vars
    /\ (gate_pc = "waiting" /\ now + TicksPerSecond <= MaxTime) ~> (gate_pc = "sending")

C18_Witness == gate_pc = "sending" /\ waited /\ outcome = "none"

(***************************************************************************)
(* Claims about query (SpecQuery)                                          *)
(***************************************************************************)
\* The lists in order, as one list
RECURSIVE Chained(_)
Chained(calls) ==
    IF calls = << >> THEN << >> ELSE Head(calls).article_ids \o Chained(Tail(calls))

\* C17: query calls get_article_ids once, with its query, max_results and
\* start_year (1900 when left out), then get_articles once per batch with its
\* skip: ceil(n / 250) batches for n identifiers, each of 1 to 250
\* identifiers, that chained in order are the list get_article_ids returned.
C17_QueryBatches ==
    query_pc = "done"
        => /\ Len(get_article_ids_calls) = 1
           /\ get_article_ids_calls[1].query = query_args.query
           /\ get_article_ids_calls[1].max_results
                 = (IF query_args.max_results = << >> THEN 0 - 1
                    ELSE query_args.max_results[1])
           /\ get_article_ids_calls[1].start_year
                 = (IF query_args.start_year = << >> THEN 1900
                    ELSE query_args.start_year[1])
           /\ Len(get_articles_calls) = (Len(article_ids) + 249) \div 250
           /\ \A k \in DOMAIN get_articles_calls :
                  /\ get_articles_calls[k].skip = query_args.skip
                  /\ Len(get_articles_calls[k].article_ids) \in 1..250
           /\ Chained(get_articles_calls) = article_ids

C17_Witness ==
    /\ query_pc = "done"
    /\ query_args.start_year = << >>
    /\ Len(article_ids) = 501
    /\ Len(get_articles_calls) = 3

(***************************************************************************)
(* Claims about self.parameters (Spec)                                     *)
(***************************************************************************)
\* What the first request of a call carries: the defaults with the term and
\* retmax 1 for the probe of get_article_ids, with the id for get_articles
FirstRequestIsFresh ==
    Len(requests) >= 1
        => \/ requests[1].parameters
                = Sent(Set(Set(NewParameters("None"), "term", Query), "retmax", 1), "json")
           \/ \E ids \in ArticleIdsArgs :
                requests[1].parameters = Sent(Set(NewParameters("None"), "id", ids), "xml")

\* The direct paged search carries no date bounds, and the cap of its own call
DirectRequestIsFresh ==
    (Len(requests) >= 2 /\ IsDirectRequest(2))
        => /\ DOMAIN requests[2].parameters
                 = DOMAIN NewParameters("None") \cup {"term", "retmax", "retmode"}
           /\ requests[2].parameters.retmax = Min(max_results, max_retriveable_results)

\* C19: self.parameters is what __init__ made it, whatever calls were made
\* and however they ended: term, retmax, retmode, mindate, maxdate and id go
\* to the copy of each call, so no request of a later call carries date
\* bounds or a result cap of an earlier one.
C19_DefaultsUnchanged ==
    /\ self_parameters = NewParameters("None")
    /\ FirstRequestIsFresh
    /\ DirectRequestIsFresh

C19_Witness ==
    /\ pc = "done"
    /\ "mindate" \in DOMAIN parameters
    /\ parameters.retmax = 2
    /\ self_parameters = NewParameters("None")

=============================================================================
